---- MODULE Spec2Model ----
(***************************************************************************)
(* State-machine model of createWSHooks (websocks client): the query and   *)
(* value caches, the recoverable websocket of every load cycle, the        *)
(* subscriber list with its delayed cleanup, and the browser events        *)
(* (socket open/message/error/close, timers) that drive them.              *)
(***************************************************************************)
EXTENDS Integers, Sequences, FiniteSets, TLC

\* ------------------------------------------------------------------ bounds
\* load cycles (calls of load() that run to the end) in one behaviour
MaxLoads == 2
\* WebSocket objects constructed in one behaviour
MaxSockets == 3

\* canonical paths as built by buildPath(route, params)
Paths == {"/a"}
\* onStoreChanged callbacks, used the way useSyncExternalStore uses them: a
\* callback is subscribed to one store at a time, and the unsubscribe closure it
\* got is invoked once
Listeners == {"l1", "l2"}
\* text frames a server may push: a falsy payload, data, an error payload
Frames == {"0", "{\"users\":3}", "{\"error\":\"boom\"}"}

\* ------------------------------------------------------------------ state
VARIABLES
  valueCache,   \* Map<string, unknown>: a function on a subset of Paths
  queryCache,   \* Map<string, {deferred, lazilyRefetch, subscribe}>
  loads,        \* the closures of every load() that ran: one record per load cycle
  sockets,      \* every WebSocket constructed by recreate()
  evaluated,    \* how many times the opts function of the factory has been called
  handed,       \* unsubscribe closures returned by subscribe and held by a caller
  calls,        \* history: listener invocations of the last step, in order
  sent,         \* history: frames written by ws.send in the last step
  last          \* history: the last operation and what it returned or threw

vars == <<valueCache, queryCache, loads, sockets, evaluated, handed, calls, sent, last>>

\* WebSocket.readyState
CONNECTING == 0
OPEN == 1
CLOSING == 2
CLOSED == 3

\* CloseEvent.code of an abnormal closure
AbnormalClosure == 1006
\* CloseEvent.code of a normal closure
NormalClosure == 1000
CloseCodes == {AbnormalClosure, NormalClosure}

LoadIds == 1..Len(loads)
SocketIds == 1..Len(sockets)

\* Map.set
MapSet(m, k, v) == [x \in (DOMAIN m) \cup {k} |-> IF x = k THEN v ELSE m[x]]
\* Map.delete
MapDelete(m, k) == [x \in (DOMAIN m) \ {k} |-> m[x]]

\* ------------------------------------------------------------ pure helpers
\* parseJSON of ./string: the decoded payload, a decode failure as an error payload
parseJSON(frame) ==
  CASE frame = "0" -> [kind |-> "number", n |-> 0, error |-> FALSE]
    [] frame = "{\"users\":3}" -> [kind |-> "object", n |-> 3, error |-> FALSE]
    [] frame = "{\"error\":\"boom\"}" -> [kind |-> "object", n |-> 0, error |-> TRUE]
    [] OTHER -> [kind |-> "object", n |-> 1, error |-> TRUE]

\* what Map.get returns for a missing key
Undefined == [kind |-> "undefined", n |-> 0, error |-> FALSE]

\* Map.get
MapGet(m, k) == IF k \in DOMAIN m THEN m[k] ELSE Undefined

\* JavaScript truthiness of a value: undefined and the number 0 are falsy
Truthy(value) == value.kind = "object" \/ (value.kind = "number" /\ value.n # 0)

\* a promise settles once: resolve/reject of a settled promise does nothing
Settle(state, outcome) == IF state = "pending" THEN outcome ELSE state

\* Array.prototype.indexOf: 1-based position of the first occurrence, 0 for -1
IndexOf(seq, x) ==
  IF \E i \in 1..Len(seq) : seq[i] = x
    THEN CHOOSE i \in 1..Len(seq) : seq[i] = x /\ \A j \in 1..(i - 1) : seq[j] # x
    ELSE 0

\* seq without the element at position i
RemoveAt(seq, i) == [j \in 1..(Len(seq) - 1) |-> IF j < i THEN seq[j] ELSE seq[j + 1]]

\* subscriptions.splice(index, 1): index -1 counts from the end of the array
Splice(seq, index) ==
  IF Len(seq) = 0 THEN seq
  ELSE IF index = 0 THEN RemoveAt(seq, Len(seq))
  ELSE RemoveAt(seq, index)

\* what an operation returned, threw or did: the history record kept in `last`
Outcome(op, p, res, id) == [op |-> op, path |-> p, res |-> res, id |-> id]

\* ------------------------------------------------------- recoverable socket
\* new WebSocket(url) inside recreate(), for the connection of load cycle id
NewSocket(id, url) == [owner |-> id, url |-> url, readyState |-> CONNECTING, retry |-> FALSE]

\* ws.close() of the browser: starts the closing handshake of a live socket
SocketClose(s) ==
  IF s.readyState \in {CONNECTING, OPEN} THEN [s EXCEPT !.readyState = CLOSING] ELSE s

\* the handle's close(): closes the socket held by the outer `ws`
HandleClose(id) == [sockets EXCEPT ![loads[id].ws] = SocketClose(@)]

\* the path a socket was created for
PathOf(s) == loads[sockets[s].owner].path

\* ------------------------------------------------------------------- load()
\* faulty variant: the early return taken for the marked entry instead
LoadReturnsEarly_Inverted(p) == p \in DOMAIN queryCache /\ queryCache[p].lazilyRefetch

\* the early return of load(): an entry that is not marked for refetch
LoadReturnsEarly(p) == p \in DOMAIN queryCache /\ ~queryCache[p].lazilyRefetch

\* room for one more load cycle within the bounds
CanLoad == Len(loads) < MaxLoads /\ Len(sockets) < MaxSockets

\* the closure state of a load() that runs: deferred, subscriptions, timer, ws
NewLoad(p) ==
  [path |-> p, deferred |-> "pending", subscriptions |-> <<>>,
   cleanupTimeoutId |-> FALSE, ws |-> Len(sockets) + 1]

\* queryCache.set at the end of load()
LoadEntry(p) ==
  [deferred |-> Len(loads) + 1, lazilyRefetch |-> FALSE, subscribe |-> Len(loads) + 1]

\* faulty variant: opts resolved at the top of load(), before the early return
OptsEvaluations_BeforeReturn(p) == 1

\* calls of the opts function made by one load(): the one of
\* `typeof opts === "function" ? opts() : opts`, after the early return
OptsEvaluations(p) == IF LoadReturnsEarly(p) THEN 0 ELSE 1

\* resolvedOpts.url: a just-in-time opts function gives a fresh url at every
\* call, the n-th call the n-th url
OptsUrl == evaluated + 1

\* the effect of load() on the program state
LoadEffect(p) ==
  /\ evaluated' = evaluated + OptsEvaluations(p)
  /\ IF LoadReturnsEarly(p)
       THEN UNCHANGED <<queryCache, loads, sockets>>
       ELSE /\ CanLoad
            /\ loads' = Append(loads, NewLoad(p))
            /\ sockets' = Append(sockets, NewSocket(Len(loads) + 1, OptsUrl))
            /\ queryCache' = MapSet(queryCache, p, LoadEntry(p))

Load(p) ==
  /\ LoadEffect(p)
  /\ UNCHANGED handed
  /\ last' = Outcome("load", p, IF LoadReturnsEarly(p) THEN "noop" ELSE "loaded", 0)
  /\ calls' = <<>>
  /\ sent' = <<>>
  /\ UNCHANGED valueCache

\* ------------------------------------------------------------------- read()
\* the usage check of read() and subscribe(): no entry for the path
ThrowsInvariant(p) == p \notin DOMAIN queryCache

\* faulty variant: read() never calls load()
ReadReloads_Never(p) == FALSE

\* read()'s test for calling load() first
ReadReloads(p) == queryCache[p].lazilyRefetch

\* what read() returns or throws once past the usage check, for the entry it got
\* at its first line and the value it finds in valueCache
ReadResult(p, query, value, suspend) ==
  IF ~Truthy(value)
    THEN IF suspend THEN Outcome("read", p, "suspend", query.deferred)
                    ELSE Outcome("read", p, "null", 0)
    ELSE IF value.kind = "object" /\ value.error
      THEN Outcome("read", p, "readError", 0)
      ELSE Outcome("read", p, "value", 0)

Read(p, suspend) ==
  /\ calls' = <<>>
  /\ sent' = <<>>
  /\ UNCHANGED <<valueCache, handed>>
  /\ IF ThrowsInvariant(p)
       THEN /\ last' = Outcome("read", p, "usage", 0)
            /\ UNCHANGED <<queryCache, loads, sockets, evaluated>>
       ELSE /\ IF ReadReloads(p)
                 THEN LoadEffect(p)
                 ELSE UNCHANGED <<queryCache, loads, sockets, evaluated>>
            /\ last' = ReadResult(p, queryCache[p], MapGet(valueCache, p), suspend)

\* -------------------------------------------------------------- subscribe()
\* the callback is in the subscriptions array of some load cycle
Subscribed(l) == \E id \in LoadIds : IndexOf(loads[id].subscriptions, l) > 0

\* subscribe of a load cycle: subscriptions.push(onStoreChanged)
SubscribePush(id, l) == [loads EXCEPT ![id].subscriptions = Append(@, l)]

Subscribe(p, l) ==
  /\ calls' = <<>>
  /\ sent' = <<>>
  /\ UNCHANGED <<valueCache, queryCache, sockets, evaluated>>
  /\ IF ThrowsInvariant(p)
       THEN /\ last' = Outcome("subscribe", p, "usage", 0)
            /\ UNCHANGED <<loads, handed>>
       ELSE /\ ~Subscribed(l)
            /\ loads' = SubscribePush(queryCache[p].subscribe, l)
            /\ handed' = handed \cup {<<queryCache[p].subscribe, l>>}
            /\ last' = Outcome("subscribe", p, "ok", queryCache[p].subscribe)

\* the closure returned by subscribe: clearTimeout, indexOf, splice, setTimeout
UnsubscribeEffect(id, l) ==
  [loads EXCEPT ![id].subscriptions = Splice(@, IndexOf(@, l)),
                ![id].cleanupTimeoutId = TRUE]

\* the closure is called and dropped, as useSyncExternalStore does
Unsubscribe(id, l) ==
  /\ <<id, l>> \in handed
  /\ loads' = UnsubscribeEffect(id, l)
  /\ handed' = handed \ {<<id, l>>}
  /\ last' = Outcome("unsubscribe", loads[id].path, "ok", id)
  /\ calls' = <<>>
  /\ sent' = <<>>
  /\ UNCHANGED <<valueCache, queryCache, sockets, evaluated>>

\* the closure is called by a caller that keeps it and may call it again
UnsubscribeKept(id, l) ==
  /\ <<id, l>> \in handed
  /\ loads' = UnsubscribeEffect(id, l)
  /\ last' = Outcome("unsubscribe", loads[id].path, "kept", id)
  /\ calls' = <<>>
  /\ sent' = <<>>
  /\ UNCHANGED <<valueCache, queryCache, sockets, evaluated, handed>>

\* faulty variant: the timer closes without looking at the array
CleanupCloses_Always(id) == TRUE

\* the cleanup timer's test before ws.close()
CleanupCloses(id) == Len(loads[id].subscriptions) = 0

\* the 9999 ms cleanup timer of a load cycle fires
CleanupTimer(id) ==
  /\ loads[id].cleanupTimeoutId
  /\ loads' = [loads EXCEPT ![id].cleanupTimeoutId = FALSE]
  /\ sockets' = IF CleanupCloses(id) THEN HandleClose(id) ELSE sockets
  /\ last' = Outcome("cleanup", loads[id].path, IF CleanupCloses(id) THEN "close" ELSE "keep", id)
  /\ calls' = <<>>
  /\ sent' = <<>>
  /\ UNCHANGED <<valueCache, queryCache, evaluated, handed>>

\* -------------------------------------------------------------- clearQuery()
\* the entry written back by clearQuery and onClose: the same entry, marked
MarkStale(query) == [query EXCEPT !.lazilyRefetch = TRUE]

\* faulty variant: clearQuery removes the entry
ClearQueryCache_Deletes(p) == MapDelete(queryCache, p)

\* queryCache after clearQuery(path)
ClearQueryCache(p) ==
  IF p \in DOMAIN queryCache THEN MapSet(queryCache, p, MarkStale(queryCache[p])) ELSE queryCache

ClearQuery(p) ==
  /\ valueCache' = MapDelete(valueCache, p)
  /\ queryCache' = ClearQueryCache(p)
  /\ last' = Outcome("clearQuery", p, "ok", 0)
  /\ calls' = <<>>
  /\ sent' = <<>>
  /\ UNCHANGED <<loads, sockets, evaluated, handed>>

\* ------------------------------------------------------------- socket events
\* faulty variant: the path is sent as a JSON document
OpenSends_Json(s) == <<[socket |-> s, frame |-> <<"path", PathOf(s)>>]>>

\* ws.send(path) of the "open" listener: one frame, the path string as it is
OpenSends(s) == <<[socket |-> s, frame |-> PathOf(s)]>>

\* "open" listener of a socket
SocketOpen(s) ==
  /\ sockets[s].readyState = CONNECTING
  /\ sockets' = [sockets EXCEPT ![s].readyState = OPEN]
  /\ sent' = OpenSends(s)
  /\ last' = Outcome("open", PathOf(s), "ok", s)
  /\ calls' = <<>>
  /\ UNCHANGED <<valueCache, queryCache, loads, evaluated, handed>>

\* valueCache.set(path, data) of onMessage
OnMessageStore(id, data) == MapSet(valueCache, loads[id].path, data)

\* faulty variant: the listeners run before valueCache.set
OnMessageCalls_BeforeSet(id, data) ==
  [i \in 1..Len(loads[id].subscriptions) |->
     [listener |-> loads[id].subscriptions[i], seen |-> MapGet(valueCache, loads[id].path)]]

\* subscriptions.forEach(cb => cb()) of onMessage: one invocation per element, in
\* order, each finding in valueCache what onMessage stored before the loop
OnMessageCalls(id, data) ==
  [i \in 1..Len(loads[id].subscriptions) |->
     [listener |-> loads[id].subscriptions[i],
      seen |-> MapGet(OnMessageStore(id, data), loads[id].path)]]

\* "message" listener: parseJSON, then onMessage of the owning load cycle
SocketMessage(s, frame) ==
  /\ sockets[s].readyState = OPEN
  /\ valueCache' = OnMessageStore(sockets[s].owner, parseJSON(frame))
  /\ calls' = OnMessageCalls(sockets[s].owner, parseJSON(frame))
  /\ loads' = [loads EXCEPT ![sockets[s].owner].deferred = Settle(@, "resolved")]
  /\ last' = Outcome("message", PathOf(s), "ok", s)
  /\ sent' = <<>>
  /\ UNCHANGED <<queryCache, sockets, evaluated, handed>>

\* faulty variant: the error also empties the subscriptions array
OnError_DropsSubscribers(id) ==
  [loads EXCEPT ![id].deferred = Settle(@, "rejected"), ![id].subscriptions = <<>>]

\* onError of a load cycle: deferred.reject(err)
OnError(id) == [loads EXCEPT ![id].deferred = Settle(@, "rejected")]

\* "error" listener of a socket: onError of the owning load cycle, nothing else
SocketError(s) ==
  /\ sockets[s].readyState # CLOSED
  /\ loads' = OnError(sockets[s].owner)
  /\ last' = Outcome("error", PathOf(s), "ok", s)
  /\ calls' = <<>>
  /\ sent' = <<>>
  /\ UNCHANGED <<valueCache, queryCache, sockets, evaluated, handed>>

\* the close listener's branch: a reconnect timer instead of onClose
ClosureRetries(code) == code = AbnormalClosure

\* faulty variant: onClose leaves the value in place
OnCloseValues_Kept(p) == valueCache

\* valueCache after onClose of a connection for path p
OnCloseValues(p) == IF p \in DOMAIN queryCache THEN MapDelete(valueCache, p) ELSE valueCache

\* queryCache after onClose of a connection for path p
OnCloseQueries(p) ==
  IF p \in DOMAIN queryCache THEN MapSet(queryCache, p, MarkStale(queryCache[p])) ELSE queryCache

\* "close" listener of a socket
SocketCloseEvent(s, code) ==
  /\ sockets[s].readyState # CLOSED
  /\ calls' = <<>>
  /\ sent' = <<>>
  /\ UNCHANGED <<loads, evaluated, handed>>
  /\ IF ClosureRetries(code)
       THEN /\ sockets' = [sockets EXCEPT ![s].readyState = CLOSED, ![s].retry = TRUE]
            /\ last' = Outcome("close", PathOf(s), "retry", s)
            /\ UNCHANGED <<valueCache, queryCache>>
       ELSE /\ sockets' = [sockets EXCEPT ![s].readyState = CLOSED]
            /\ last' = Outcome("close", PathOf(s), "onClose", s)
            /\ valueCache' = OnCloseValues(PathOf(s))
            /\ queryCache' = OnCloseQueries(PathOf(s))

\* the reconnect timer's test: readyState of the socket whose close scheduled it
RetryRecreates(s) == sockets[s].readyState = CLOSED

\* the 1000 ms reconnect timer of a closed socket fires
RetryTimer(s) ==
  /\ sockets[s].retry
  /\ IF RetryRecreates(s)
       THEN /\ Len(sockets) < MaxSockets
            /\ sockets' = Append([sockets EXCEPT ![s].retry = FALSE],
                                  NewSocket(sockets[s].owner, sockets[s].url))
            /\ last' = Outcome("retry", PathOf(s), "recreate", s)
       ELSE /\ sockets' = [sockets EXCEPT ![s].retry = FALSE]
            /\ last' = Outcome("retry", PathOf(s), "skip", s)
  /\ calls' = <<>>
  /\ sent' = <<>>
  /\ UNCHANGED <<valueCache, queryCache, loads, evaluated, handed>>

\* ------------------------------------------------------------ specification
Init ==
  /\ valueCache = <<>>
  /\ queryCache = <<>>
  /\ loads = <<>>
  /\ sockets = <<>>
  /\ evaluated = 0
  /\ handed = {}
  /\ calls = <<>>
  /\ sent = <<>>
  /\ last = Outcome("init", "", "ok", 0)

Next ==
  \/ \E p \in Paths : Load(p)
  \/ \E p \in Paths, suspend \in BOOLEAN : Read(p, suspend)
  \/ \E p \in Paths, l \in Listeners : Subscribe(p, l)
  \/ \E id \in LoadIds, l \in Listeners : Unsubscribe(id, l)
  \/ \E id \in LoadIds : CleanupTimer(id)
  \/ \E p \in Paths : ClearQuery(p)
  \/ \E s \in SocketIds : SocketOpen(s)
  \/ \E s \in SocketIds, frame \in Frames : SocketMessage(s, frame)
  \/ \E s \in SocketIds : SocketError(s)
  \/ \E s \in SocketIds, code \in CloseCodes : SocketCloseEvent(s, code)
  \/ \E s \in SocketIds : RetryTimer(s)

Spec == Init /\ [][Next]_vars

\* the interleaving of load() callers with the open/message/error events of the
\* socket, and with the readers and subscribers that wait for it
NextLoad ==
  \/ \E p \in Paths : Load(p)
  \/ \E p \in Paths, suspend \in BOOLEAN : Read(p, suspend)
  \/ \E p \in Paths, l \in Listeners : Subscribe(p, l)
  \/ \E s \in SocketIds : SocketOpen(s)
  \/ \E s \in SocketIds, frame \in Frames : SocketMessage(s, frame)
  \/ \E s \in SocketIds : SocketError(s)

SpecLoad == Init /\ [][NextLoad]_vars

\* a caller that keeps the closure returned by subscribe and calls it as often as
\* it likes, while the socket opens and delivers messages
NextUnsubscribe ==
  \/ \E p \in Paths : Load(p)
  \/ \E p \in Paths, l \in Listeners : Subscribe(p, l)
  \/ \E id \in LoadIds, l \in Listeners : UnsubscribeKept(id, l)
  \/ \E s \in SocketIds : SocketOpen(s)
  \/ \E s \in SocketIds, frame \in Frames : SocketMessage(s, frame)

SpecUnsubscribe == Init /\ [][NextUnsubscribe]_vars

\* ------------------------------------------------------------------ claims
\* sockets of a path that are connecting or open
LiveSockets(p) ==
  {s \in SocketIds : PathOf(s) = p /\ sockets[s].readyState \in {CONNECTING, OPEN}}

\* the program state proper, without the history variables
state == <<valueCache, queryCache, loads, sockets>>

\* the entry of a path is marked for refetch
Stale(p) == p \in DOMAIN queryCache /\ queryCache[p].lazilyRefetch

\* C1: in every reachable state each Path has at most one socket that is
\* connecting or open.
C1_AtMostOneLiveSocket == \A p \in Paths : Cardinality(LiveSockets(p)) <= 1

\* C2: with only load(), read(), subscribe() and the open/message/error events of
\* the socket, a Path never has more than one socket or more than one deferred,
\* and a load() that finds an entry with lazilyRefetch = false changes nothing.
C2_LoadDeduplicated ==
  /\ [](Len(sockets) <= 1 /\ Len(loads) <= 1)
  /\ [][\A p \in Paths :
          (Load(p) /\ p \in DOMAIN queryCache /\ ~queryCache[p].lazilyRefetch)
             => (UNCHANGED state /\ last'.res = "noop")]_vars

\* C2 witness: a load() returned early while the socket was open and a value cached
C2_Witness ==
  /\ last.op = "load" /\ last.res = "noop"
  /\ Len(sockets) = 1 /\ sockets[1].readyState = OPEN
  /\ last.path \in DOMAIN valueCache

\* C3: whenever the entry of a Path has lazilyRefetch = true, valueCache has no
\* entry for the Path.
C3_StaleImpliesCleared == \A p \in Paths : Stale(p) => p \notin DOMAIN valueCache

\* C4: a 1006 close schedules one reconnect timer, and the timer creates a socket
\* only if the Path has no open socket when it fires.
C4_RetryOnlyWithoutOpenSocket ==
  [][\A s \in SocketIds :
       /\ SocketCloseEvent(s, AbnormalClosure) =>
            (sockets'[s].retry /\ Len(sockets') = Len(sockets))
       /\ (RetryTimer(s) /\ Len(sockets') > Len(sockets)) =>
            ~(\E o \in SocketIds : PathOf(o) = PathOf(s) /\ sockets[o].readyState = OPEN)]_vars

C6_CleanupClosesConnection ==
  [][\A id \in LoadIds :
       (CleanupTimer(id) /\ Len(loads[id].subscriptions) = 0) =>
         \A s \in SocketIds :
           sockets[s].owner = id => sockets'[s].readyState \notin {CONNECTING, OPEN}]_vars

\* C7: read() and subscribe() of a Path without entry throw the usage error and
\* change nothing; they never throw it for a Path that load() has run for.
C7_UsageError ==
  /\ [][\A p \in Paths :
          ((\E suspend \in BOOLEAN : Read(p, suspend)) \/ (\E l \in Listeners : Subscribe(p, l)))
            => IF p \in DOMAIN queryCache
                 THEN last'.res # "usage"
                 ELSE last'.res = "usage" /\ UNCHANGED state]_vars
  /\ [](\A id \in LoadIds : loads[id].path \in DOMAIN queryCache)
  /\ [](last.res = "usage" => \A id \in LoadIds : loads[id].path # last.path)

\* C7 witness: a read() threw the usage error
C7_Witness == last.op = "read" /\ last.res = "usage" /\ last.path \notin DOMAIN queryCache

\* C8 as claimed: after clearQuery(path) in any state, the value is dropped and a
\* read of the path passes the usage check and starts a load.
C8_ClearQueryAlwaysReloads ==
  [][\A p \in Paths :
       ClearQuery(p) => (p \notin DOMAIN valueCache' /\ ~ThrowsInvariant(p)' /\ Stale(p)')]_vars

\* C8 amended: clearQuery(path) drops the value; if the path has an entry it marks
\* it, the mark stays until a load runs for the path, and a read of a marked path
\* does not throw the usage error and starts a load: a new socket and a new pending
\* deferred, written to queryCache.
C8_ClearQueryOfLoadedPath ==
  [][\A p \in Paths :
       /\ ClearQuery(p) =>
            (p \notin DOMAIN valueCache' /\ (p \in DOMAIN queryCache => Stale(p)'))
       /\ (Stale(p) /\ ~Stale(p)') =>
            (Len(loads') = Len(loads) + 1 /\ queryCache'[p].deferred = Len(loads'))
       /\ \A suspend \in BOOLEAN :
            (Read(p, suspend) /\ Stale(p)) =>
              /\ last'.res # "usage"
              /\ Len(loads') = Len(loads) + 1
              /\ Len(sockets') = Len(sockets) + 1
              /\ sockets'[Len(sockets')] = NewSocket(Len(loads'), evaluated')
              /\ loads'[Len(loads')].deferred = "pending"
              /\ loads'[Len(loads')].path = p
              /\ queryCache'[p] = [deferred |-> Len(loads'), lazilyRefetch |-> FALSE,
                                   subscribe |-> Len(loads')]]_vars

\* C8 witness: a read() reloaded a path whose first socket never closed, so the
\* entry had been marked by clearQuery
C8_Witness ==
  /\ last.op = "read" /\ Len(loads) = 2 /\ Len(sockets) = 2
  /\ sockets[1].readyState = OPEN /\ sockets[2].readyState = CONNECTING
  /\ queryCache[last.path].deferred = 2

\* C9 as claimed: every close event, whatever its code, clears the value and marks
\* the entry.
C9_AnyClosureMarksStale ==
  [][\A s \in SocketIds, code \in CloseCodes :
       SocketCloseEvent(s, code) => (PathOf(s) \notin DOMAIN valueCache' /\ Stale(PathOf(s))')]_vars

\* C9 amended: a close event with a code other than 1006 clears the value and
\* marks the entry; a close event with code 1006 leaves both caches as they are
\* and starts the reconnect timer.
C9_ClosureByCode ==
  [][\A s \in SocketIds :
       /\ SocketCloseEvent(s, NormalClosure) =>
            (PathOf(s) \notin DOMAIN valueCache' /\ Stale(PathOf(s))' /\ ~sockets'[s].retry)
       /\ SocketCloseEvent(s, AbnormalClosure) =>
            (UNCHANGED <<valueCache, queryCache>> /\ sockets'[s].retry)]_vars

\* C9 witness: a connection that had delivered a value closed with a normal code
C9_Witness ==
  /\ last.op = "close" /\ last.res = "onClose"
  /\ \E id \in LoadIds : loads[id].deferred = "resolved"
  /\ Stale(last.path) /\ last.path \notin DOMAIN valueCache

ConnectionSockets(id) == {s \in SocketIds : sockets[s].owner = id}

\* the socket of a connection that recreate() constructed last
NewestSocket(id) == CHOOSE s \in ConnectionSockets(id) : \A o \in ConnectionSockets(id) : o <= s

\* a load cycle whose entry in queryCache has been replaced by a later load()
Superseded(id) ==
  /\ loads[id].path \in DOMAIN queryCache
  /\ ~Stale(loads[id].path)
  /\ queryCache[loads[id].path].deferred # id

\* C11: once the only load cycle of a Path has stored an error payload and no
\* closure or clearQuery has marked the entry, a further message of that cycle
\* leaves every read() of the Path raising the read error.
C11_ErrorIsTerminal ==
  [][\A s \in SocketIds, frame \in Frames :
       (/\ SocketMessage(s, frame)
        /\ Len(loads) = 1
        /\ ~Stale(PathOf(s))
        /\ MapGet(valueCache, PathOf(s)).error)
         => \A suspend \in BOOLEAN :
              ReadResult(PathOf(s), queryCache'[PathOf(s)],
                         MapGet(valueCache', PathOf(s)), suspend).res = "readError"]_vars

\* C12: whenever read(suspend = true) suspends, the deferred it throws is the one
\* of the entry that queryCache holds for the Path after the read.
C12_SuspendsOnCurrentHandle ==
  [][\A p \in Paths :
       (Read(p, TRUE) /\ last'.res = "suspend") => last'.id = queryCache'[p].deferred]_vars

\* C13: a message for a Path calls every listener that is subscribed to the Path
\* and has not unsubscribed, whichever load cycle it subscribed in.
C13_AllSubscribersNotified ==
  [][\A s \in SocketIds, frame \in Frames :
       SocketMessage(s, frame) =>
         \A id \in LoadIds, l \in Listeners :
           (loads[id].path = PathOf(s) /\ IndexOf(loads[id].subscriptions, l) > 0)
             => \E i \in 1..Len(calls') : calls'[i].listener = l]_vars

\* C14: the handle's close() closes the socket of its connection that was
\* constructed last, and a reconnect timer that fires right after close() was
\* called constructs no socket for that connection.
C14_CloseActsOnCurrentSocket ==
  [][\A id \in LoadIds :
       /\ (CleanupTimer(id) /\ CleanupCloses(id)) =>
            sockets'[NewestSocket(id)].readyState \notin {CONNECTING, OPEN}
       /\ (last.op = "cleanup" /\ last.res = "close" /\ last.id = id) =>
            \A s \in ConnectionSockets(id) :
              ~(RetryTimer(s) /\ Len(sockets') > Len(sockets))]_vars

\* C15: when the only load cycle of a Path has stored a payload without error
\* field and the entry is not marked, read() returns the value, with suspend true
\* or false, also for the falsy payload 0.
C15_ReadReturnsCachedValue ==
  [][\A p \in Paths, suspend \in BOOLEAN :
       (/\ Read(p, suspend)
        /\ Len(loads) = 1
        /\ ~Stale(p)
        /\ p \in DOMAIN valueCache
        /\ ~valueCache[p].error)
         => last'.res = "value"]_vars

\* C16: an error event of a socket rejects the deferred of the load cycle that owns
\* the socket, if it is still pending, and changes nothing else: not the sockets
\* (readyState, reconnect timer), not valueCache, not queryCache, not the
\* subscriptions array or cleanup timer of any load cycle.
C16_ErrorOnlyRejects ==
  [][\A s \in SocketIds :
       SocketError(s) =>
         /\ UNCHANGED <<valueCache, queryCache, sockets>>
         /\ Len(loads') = Len(loads)
         /\ \A id \in LoadIds :
              loads'[id] =
                IF id = sockets[s].owner /\ loads[id].deferred = "pending"
                  THEN [loads[id] EXCEPT !.deferred = "rejected"]
                  ELSE loads[id]]_vars

\* C16 witness: an error event rejected the pending deferred of a connection whose
\* socket is open and has a listener
C16_Witness ==
  /\ last.op = "error"
  /\ sockets[last.id].readyState = OPEN
  /\ loads[sockets[last.id].owner].deferred = "rejected"
  /\ Len(loads[sockets[last.id].owner].subscriptions) = 1

\* C17: a socket writes one frame, the path string, in the step of its open event;
\* no other step writes a frame, and a socket has at most one open event: only a
\* connecting socket opens, and a socket never becomes connecting again.
C17_WireProtocol ==
  [][/\ \A s \in SocketIds :
          SocketOpen(s) => sent' = <<[socket |-> s, frame |-> loads[sockets[s].owner].path]>>
     /\ last'.op # "open" => sent' = <<>>
     /\ sent' # <<>> =>
          /\ Len(sent') = 1
          /\ sockets[sent'[1].socket].readyState = CONNECTING
          /\ sockets'[sent'[1].socket].readyState = OPEN
     /\ \A s \in SocketIds :
          sockets[s].readyState # CONNECTING => sockets'[s].readyState # CONNECTING]_vars

\* C17 witness: a socket constructed by a reconnection opened and sent the path
C17_Witness ==
  /\ last.op = "open"
  /\ sent = <<[socket |-> last.id, frame |-> "/a"]>>
  /\ last.id > loads[sockets[last.id].owner].ws

\* C18: the opts function is called once in every step that starts a load cycle
\* and in no other step, and the socket constructed in that step is opened with the
\* url that call returned.
C18_OptsPerConnectingLoad ==
  /\ [](evaluated = Len(loads))
  /\ [][/\ evaluated' = evaluated + (IF Len(loads') > Len(loads) THEN 1 ELSE 0)
        /\ Len(loads') > Len(loads) =>
             /\ Len(sockets') = Len(sockets) + 1
             /\ sockets'[Len(sockets')].owner = Len(loads')
             /\ sockets'[Len(sockets')].url = evaluated + 1
        /\ \A p \in Paths :
             /\ (Load(p) /\ LoadReturnsEarly(p)) => evaluated' = evaluated
             /\ (ClearQuery(p) \/ \E l \in Listeners : Subscribe(p, l)) => evaluated' = evaluated
             /\ (~Stale(p) /\ \E suspend \in BOOLEAN : Read(p, suspend)) => evaluated' = evaluated]_vars

\* C18 witness: a load() returned early after a reload had called opts a second
\* time and opened its socket with the second url
C18_Witness ==
  /\ last.op = "load" /\ last.res = "noop"
  /\ evaluated = 2
  /\ \E s \in SocketIds : sockets[s].owner = 2 /\ sockets[s].url = 2

\* C19: a call of an unsubscribe closure removes the first occurrence of its
\* listener from the subscriptions array and nothing else; when the listener is no
\* longer in the array, the call leaves the array as it is.
C19_UnsubscribeIdempotent ==
  [][\A id \in LoadIds, l \in Listeners :
       (Unsubscribe(id, l) \/ UnsubscribeKept(id, l)) =>
         loads'[id].subscriptions =
           IF IndexOf(loads[id].subscriptions, l) > 0
             THEN RemoveAt(loads[id].subscriptions, IndexOf(loads[id].subscriptions, l))
             ELSE loads[id].subscriptions]_vars

\* C20: for a load cycle that a later load() has superseded, a close event of its
\* socket changes neither cache, a message of its socket does not replace the value
\* that the current connection delivered, and its cleanup timer changes no socket
\* of another load cycle.
C20_SupersededEventsIgnored ==
  [][/\ \A s \in SocketIds :
          Superseded(sockets[s].owner) =>
            /\ (\E code \in CloseCodes : SocketCloseEvent(s, code)) =>
                 UNCHANGED <<valueCache, queryCache>>
            /\ (/\ \E frame \in Frames : SocketMessage(s, frame)
                /\ loads[queryCache[PathOf(s)].deferred].deferred = "resolved") =>
                 valueCache' = valueCache
     /\ \A id \in LoadIds :
          (Superseded(id) /\ CleanupTimer(id)) =>
            \A s \in SocketIds : sockets[s].owner # id => sockets'[s] = sockets[s]]_vars

====
